---------------------------- MODULE Spec2Model ----------------------------
(***************************************************************************)
(* Model of qb_pressure_analysis.py: class NFLPressureAnalysis.            *)
(*                                                                         *)
(* Units.  Sampled times are reals; the model keeps them on a grid of      *)
(* SubTicks ticks per hundredth of a second, so that a raw (unrounded)     *)
(* time and its stored (rounded to 2 decimals) value are different         *)
(* numbers: raw times are in ticks, stored times in hundredths.  Yards are *)
(* raw in hundredths of a yard and stored in tenths (round(1)).            *)
(* Probabilities are in percent.  Means rounded by .round(3) are in        *)
(* thousandths.                                                            *)
(*                                                                         *)
(* Columns of the table that no method ever reads (down, distance,         *)
(* field_position, score_diff, quarter, rushers) are not kept.             *)
(***************************************************************************)
EXTENDS Integers, Sequences, FiniteSets, TLC

VARIABLES
    pc,       \* "new" before __init__ has built self.data, "ready" after
    data,     \* self.data: sequence of rows (records, one field per column)
    gen,      \* locals of create_realistic_nfl_data per play: the unrounded
              \* times and the two probability arrays of lines 89-97
    lastOp,   \* the method called last
    err,      \* the exception the last call raised, or "None"
    result,   \* what the last call returned
    output_dir \* whether the directory /home/claude/nfl_analytics_project,
              \* into which line 330 saves the figure, exists

vars == <<pc, data, gen, lastOp, err, result, output_dir>>

-----------------------------------------------------------------------------
(* Bounds *)

\* n_plays ranges over 1..MaxPlays (the source defaults to 2500)
MaxPlays == 2

\* ticks of the raw time grid per stored hundredth of a second
SubTicks == 3

-----------------------------------------------------------------------------
(* Numeric helpers *)

\* a/b rounded to the nearest integer, ties to even (numpy's round), b > 0
RoundDiv(a, b) ==
    LET q == a \div b
        r == a - q * b
    IN  IF 2 * r < b THEN q
        ELSE IF 2 * r > b THEN q + 1
        ELSE IF q % 2 = 0 THEN q ELSE q + 1

\* raw ticks of a time given in hundredths of a second plus an offset in ticks
T(h, o) == h * SubTicks + o

\* the raw value of a threshold written in the source in seconds (h hundredths)
Sec(h) == h * SubTicks

\* Series.round(2) on a raw time: ticks -> hundredths
Round2(t) == RoundDiv(t, SubTicks)

\* Series.round(1) on raw yards: hundredths -> tenths
Round1(y) == RoundDiv(y, 10)

\* np.clip
Clip(x, lo, hi) == IF x < lo THEN lo ELSE IF x > hi THEN hi ELSE x

\* the values np.random.binomial(1, p) can return, p in percent
Binomial1(p) == {x \in {0, 1} : (x = 1 => p > 0) /\ (x = 0 => p < 100)}

\* all functions f on the domain of S with f[i] \in S[i]
Prod(S) ==
    LET U == UNION {S[i] : i \in DOMAIN S}
    IN  {f \in [DOMAIN S -> U] : \A i \in DOMAIN S : f[i] \in S[i]}

RECURSIVE SumOver(_, _)
SumOver(f, S) ==
    IF S = {} THEN 0
    ELSE LET i == CHOOSE x \in S : TRUE
         IN  f[i] + SumOver(f, S \ {i})

-----------------------------------------------------------------------------
(* create_realistic_nfl_data: the sampled inputs *)

\* One sampled play: raw time_to_throw, pressure_applied, raw time_to_pressure
\* and def_alignment (lines 50, 53, 54, 70).  The gamma draws are any positive
\* real; the samples sit on and next to the thresholds the code compares
\* against and next to the ends of the bins of pd.cut.
Play(tt, pa, tp, al) ==
    [time_to_throw |-> tt, pressure_applied |-> pa,
     time_to_pressure |-> tp, def_alignment |-> al]

PlaySamples ==
    { Play(T(150, 0),  0, T(150, -1), "Nickel"),    \* quick release, no pressure
      Play(T(200, 1),  0, T(150, -1), "4-3 Base"),  \* just above 2.0, stored 2.00
      Play(T(250, 1),  0, T(333, 0),  "Dime"),      \* just above 2.5, stored 2.50
      Play(T(0, 1),    0, T(150, -1), "Nickel"),    \* stored 0.00
      Play(T(300, 0),  1, T(333, 0),  "3-4 Base"),  \* pressure arrives after the throw
      Play(T(200, 0),  1, T(250, 0),  "Dime"),      \* exactly 2.0
      Play(T(1001, 0), 1, T(1001, 0), "Nickel"),    \* both above 10
      Play(T(150, 0),  1, T(180, 0),  "4-3 Base"),  \* quick pressure, thrown before it
      Play(T(150, 0),  1, T(150, -1), "Blitz"),     \* pressure just before the throw
      Play(T(400, 0),  1, T(200, -1), "Blitz"),     \* pressure just under 2.0
      Play(T(150, 0),  1, T(0, 1),    "Nickel") }   \* pressure stored 0.00

\* raw yards (hundredths) the draws of lines 104-106 and 121 can give
BaseYards    == {150, 643}      \* np.random.gamma(2, 3)
ExtraYards   == {201}           \* np.random.gamma(1, 2)
PressureLoss == {274}           \* np.random.uniform(0, 3)
SackLoss     == {300, 796}      \* np.random.uniform(3, 8): 3 <= x < 8

-----------------------------------------------------------------------------
(* create_realistic_nfl_data: the outcome rules *)

base_completion == 65

\* mutant of p_pressure: the 0.15 drop under pressure left out
p_pressure_NoDrop(tt) ==
    Clip(base_completion - (IF tt < Sec(200) THEN 10 ELSE 0), 30, 90)

\* line 90: probability handed to binomial for the "with pressure" branch
p_pressure(tt) ==
    Clip(base_completion - 15 - (IF tt < Sec(200) THEN 10 ELSE 0), 30, 90)

\* line 95: probability handed to binomial for the "without pressure" branch
p_no_pressure(tt) ==
    Clip(base_completion + (IF tt > Sec(250) THEN 5 ELSE 0), 30, 90)

\* lines 86-98: np.where picks, per play, the draw of one of the two arrays
CompletionProb(s) ==
    IF s.pressure_applied = 1 THEN p_pressure(s.time_to_throw)
    ELSE p_no_pressure(s.time_to_throw)

\* lines 104-106: raw yards of a completed pass from its three draws
CompletedYards(s, g, e, u) ==
    g + (IF s.time_to_throw > Sec(250) THEN e ELSE 0)
      - (IF s.pressure_applied = 1 THEN u ELSE 0)

\* mutant of SackCondition: the comparison of the two times left out
SackCondition_NoThrowCheck(pa, tt, tp) ==
    /\ pa = 1
    /\ tp < Sec(200)

\* lines 113-115: the condition of np.where for the sack column
SackCondition(pa, tt, tp) ==
    /\ pa = 1
    /\ tp < Sec(200)
    /\ tt > tp

\* lines 112-118: draw is the ONE value np.random.binomial(1, 0.4) returns;
\* np.where broadcasts it to every play that meets the condition
SackColumn(smp, draw) ==
    [i \in DOMAIN smp |->
        IF SackCondition(smp[i].pressure_applied, smp[i].time_to_throw,
                         smp[i].time_to_pressure)
        THEN draw ELSE 0]

\* line 126: the condition of np.where for the interception column
InterceptionCondition(pa, completion, sack) ==
    pa = 1 /\ completion = 0 /\ sack = 0

\* lines 125-129: d03 and d01 are the ONE value each of
\* np.random.binomial(1, 0.03) and np.random.binomial(1, 0.01)
InterceptionColumn(smp, completion, sack, d03, d01) ==
    [i \in DOMAIN smp |->
        IF InterceptionCondition(smp[i].pressure_applied, completion[i], sack[i])
        THEN d03 ELSE d01]

\* mutant of CompletionAfterSack: line 122 left out
CompletionAfterSack_Kept(c, sack) == c

\* line 122: a sack is no completion
CompletionAfterSack(c, sack) ==
    [i \in DOMAIN c |-> IF sack[i] = 1 THEN 0 ELSE c[i]]

\* lines 80-137 for given draws: the returned DataFrame
\*   c      completion after line 122
\*   y      raw yards_gained as computed at lines 101-109
\*   sack   the sack column of lines 112-118
\*   loss   raw uniform(3, 8) draws of line 121 (read where sack = 1)
\*   icpt   the interception column of lines 125-129
Table(smp, c, y, sack, loss, icpt) ==
    [i \in DOMAIN smp |->
        [play_id          |-> i,
         time_to_throw    |-> Round2(smp[i].time_to_throw),
         pressure_applied |-> smp[i].pressure_applied,
         time_to_pressure |-> Round2(smp[i].time_to_pressure),
         def_alignment    |-> smp[i].def_alignment,
         completion       |-> c[i],
         yards_gained     |-> Round1(IF sack[i] = 1 THEN -loss[i] ELSE y[i]),
         sack             |-> sack[i],
         interception     |-> icpt[i]]]

\* what the generator computed from the unrounded samples
Locals(smp) ==
    [i \in DOMAIN smp |->
        [time_to_throw    |-> smp[i].time_to_throw,
         time_to_pressure |-> smp[i].time_to_pressure,
         p_pressure       |-> p_pressure(smp[i].time_to_throw),
         p_no_pressure    |-> p_no_pressure(smp[i].time_to_throw)]]

\* __init__ (lines 34-37) calling create_realistic_nfl_data (lines 39-137)
create_realistic_nfl_data ==
    /\ pc = "new"
    /\ \E n \in 1..MaxPlays : \E smp \in [1..n -> PlaySamples] :
       \E c \in Prod([i \in 1..n |-> Binomial1(CompletionProb(smp[i]))]) :
       \E y \in Prod([i \in 1..n |->
                IF c[i] = 1
                THEN {CompletedYards(smp[i], g, e, u) :
                        g \in BaseYards, e \in ExtraYards, u \in PressureLoss}
                ELSE {0}]) :
       \E draw \in Binomial1(40), d03 \in Binomial1(3), d01 \in Binomial1(1) :
       LET sack == SackColumn(smp, draw)
           c2   == CompletionAfterSack(c, sack)
           icpt == InterceptionColumn(smp, c2, sack, d03, d01)
       IN  \E loss \in Prod([i \in 1..n |->
                        IF sack[i] = 1 THEN SackLoss ELSE {0}]) :
             /\ data' = Table(smp, c2, y, sack, loss, icpt)
             /\ gen' = Locals(smp)
    /\ pc' = "ready"
    /\ lastOp' = "__init__"
    /\ err' = "None"
    /\ result' = <<>>
    /\ UNCHANGED output_dir

Init ==
    /\ pc = "new"
    /\ data = <<>>
    /\ gen = <<>>
    /\ lastOp = "None"
    /\ err = "None"
    /\ result = <<>>
    /\ output_dir \in BOOLEAN

-----------------------------------------------------------------------------
(* Helpers of the report methods *)

Idx == DOMAIN data

Columns == IF data = <<>> THEN {} ELSE DOMAIN data[1]

Pressured == {i \in Idx : data[i].pressure_applied = 1}

\* a NaN is <<>>, a number v is <<v>>
NaN == <<>>

\* 'mean' of column col over the rows S followed by .round(3), in thousandths;
\* scale turns the column's unit into thousandths
Mean3(col, S, scale) ==
    IF S = {} THEN NaN
    ELSE <<RoundDiv(scale * SumOver([i \in S |-> data[i][col]], S),
                    Cardinality(S))>>

\* .mean() kept exact: the fraction <<sum, count>>, NaN for no rows
MeanExact(f, S) ==
    IF S = {} THEN NaN ELSE <<SumOver(f, S), Cardinality(S)>>

\* pd.cut(x, bins, labels) with its default right=True: label k covers
\* bins[k] < x <= bins[k+1]; a value in no bin is NaN
Cut(x, bins, labels) ==
    IF \E k \in 1..Len(labels) : bins[k] < x /\ x <= bins[k + 1]
    THEN labels[CHOOSE k \in 1..Len(labels) : bins[k] < x /\ x <= bins[k + 1]]
    ELSE "NaN"

Range(seq) == {seq[k] : k \in 1..Len(seq)}

\* line 177: bins=[0, 2.0, 2.5, 3.0, 10] in hundredths
TimeBins == <<0, 200, 250, 300, 1000>>

TimeLabels ==
    <<"Quick (<2.0s)", "Normal (2.0-2.5s)", "Extended (2.5-3.0s)",
      "Very Long (>3.0s)">>

\* lines 230 and 317: bins=[0, 1.5, 2.5, 3.5, 10] in hundredths
PressureBins == <<0, 150, 250, 350, 1000>>

PressureLabels ==
    <<"Immediate (<1.5s)", "Quick (1.5-2.5s)", "Delayed (2.5-3.5s)",
      "Late (>3.5s)">>

ChartLabels == <<"<1.5s", "1.5-2.5s", "2.5-3.5s", ">3.5s">>

\* the order in which groupby lists the alignments (sorted keys)
AlignmentOrder == <<"3-4 Base", "4-3 Base", "Blitz", "Dime", "Nickel">>

\* the alignments of the rows S, in groupby order
Groups(S) ==
    SelectSeq(AlignmentOrder,
              LAMBDA a : \E i \in S : data[i].def_alignment = a)

\* sort_values: keys is the sequence sorted, before[i, j] says that keys[i]
\* goes strictly before keys[j]; equal keys keep their order
SortValues(keys, before) ==
    LET n == Len(keys)
        pos(j) == 1 + Cardinality({i \in 1..n :
                        \/ before[i, j]
                        \/ (~before[j, i] /\ i < j)})
    IN  [p \in 1..n |-> keys[CHOOSE j \in 1..n : pos(j) = p]]

\* a < b for two exact means (fractions with positive counts)
FracLess(a, b) == a[1] * b[2] < b[1] * a[2]

\* every report method: what a call leaves behind
Return(op, e, r, d) ==
    /\ pc = "ready"
    /\ lastOp' = op
    /\ err' = e
    /\ result' = r
    /\ data' = d
    /\ UNCHANGED <<pc, gen, output_dir>>

-----------------------------------------------------------------------------
(* The report methods.  Printing is not modelled; of the files written only *)
(* whether the directory of line 330 exists;                                *)
(* the column titles of the returned tables are spelled as field names.     *)

\* lines 142-148: one row of pressure_stats
PressureStatsRow(S) ==
    [Completion      |-> Mean3("completion", S, 1000),
     YardsPerAttempt |-> Mean3("yards_gained", S, 100),
     SackPct         |-> Mean3("sack", S, 1000),
     IntPct          |-> Mean3("interception", S, 1000),
     TotalPlays      |-> Cardinality(S)]

\* lines 139-169.  groupby yields one row per value of pressure_applied that
\* occurs; line 151 sets a two-label index and raises on any other row count.
pressure_impact_summary ==
    IF {data[i].pressure_applied : i \in Idx} = {0, 1}
    THEN Return("pressure_impact_summary", "None",
                [NoPressure      |-> PressureStatsRow(Idx \ Pressured),
                 PressureApplied |-> PressureStatsRow(Pressured)],
                data)
    ELSE Return("pressure_impact_summary", "ValueError", NaN, data)

\* lines 175-179: the column assigned to self.data['time_bucket']
TimeBucket(row) == Cut(row.time_to_throw, TimeBins, TimeLabels)

WithTimeBucket(d) ==
    [i \in DOMAIN d |-> [time_bucket |-> TimeBucket(d[i])] @@ d[i]]

\* lines 181-185: time_stats of a table d that has the time_bucket column
TimeStats(d) ==
    [b \in Range(TimeLabels), p \in {d[i].pressure_applied : i \in DOMAIN d} |->
        LET S == {i \in DOMAIN d : d[i].time_bucket = b
                                   /\ d[i].pressure_applied = p}
        IN  [completion   |-> Mean3("completion", S, 1000),
             yards_gained |-> Mean3("yards_gained", S, 100),
             play_id      |-> Cardinality(S)]]

\* lines 171-193
time_to_throw_analysis ==
    Return("time_to_throw_analysis", "None",
           TimeStats(WithTimeBucket(data)), WithTimeBucket(data))

\* lines 198-205: one row of def_stats
DefStatsRow(a) ==
    LET S == {i \in Pressured : data[i].def_alignment = a}
    IN  [def_alignment |-> a,
         SackPct       |-> Mean3("sack", S, 1000),
         IncompletionPct |->
            <<RoundDiv(1000 * SumOver([i \in S |-> 1 - data[i].completion], S),
                       Cardinality(S))>>,
         IntPct        |-> Mean3("interception", S, 1000),
         PressurePlays |-> Cardinality(S)]

\* line 206: sort_values('Sack %', ascending=False)
SackPctDescending(rows) ==
    [i \in 1..Len(rows), j \in 1..Len(rows) |->
        rows[i].SackPct[1] > rows[j].SackPct[1]]

\* lines 195-214
defensive_alignment_effectiveness ==
    LET g    == Groups(Pressured)
        rows == [k \in 1..Len(g) |-> DefStatsRow(g[k])]
    IN  Return("defensive_alignment_effectiveness", "None",
               SortValues(rows, SackPctDescending(rows)), data)

\* lines 221-225
successful_pressure(row) ==
    IF row.completion = 0 \/ row.sack = 1 \/ row.interception = 1
    THEN 1 ELSE 0

\* lines 228-232
PressureTiming(row) == Cut(row.time_to_pressure, PressureBins, PressureLabels)

\* lines 234-241: one row of timing_stats
TimingStatsRow(b) ==
    LET S == {i \in Pressured : PressureTiming(data[i]) = b}
    IN  [SuccessRate |->
            IF S = {} THEN NaN
            ELSE <<RoundDiv(1000 * SumOver(
                        [i \in S |-> successful_pressure(data[i])], S),
                    Cardinality(S))>>,
         SackPct          |-> Mean3("sack", S, 1000),
         AvgYardsAllowed  |-> Mean3("yards_gained", S, 100),
         TotalPressures   |-> Cardinality(S)]

\* lines 216-249
optimal_pressure_timing ==
    Return("optimal_pressure_timing", "None",
           [b \in Range(PressureLabels) |-> TimingStatsRow(b)], data)

\* lines 306 and 321: the success a chart counts
ChartSuccess(row) == IF row.sack = 1 \/ row.completion = 0 THEN 1 ELSE 0

\* lines 315-319
ChartTiming(row) == Cut(row.time_to_pressure, PressureBins, ChartLabels)

\* lines 258 and 271: a mean per value of pressure_applied
ByPressure(col) ==
    [p \in {data[i].pressure_applied : i \in Idx} |->
        LET S == {i \in Idx : data[i].pressure_applied = p}
        IN  MeanExact([i \in S |-> data[i][col]], S)]

\* line 294, on a table that has the time_bucket column
TimeComp ==
    [b \in Range(TimeLabels), p \in {data[i].pressure_applied : i \in Idx} |->
        LET S == {i \in Idx : data[i].time_bucket = b
                              /\ data[i].pressure_applied = p}
        IN  MeanExact([i \in S |-> data[i].completion], S)]

DefSuccessRow(a) ==
    LET S == {i \in Pressured : data[i].def_alignment = a}
    IN  [def_alignment |-> a,
         success |-> MeanExact([i \in S |-> ChartSuccess(data[i])], S)]

\* line 307: sort_values(ascending=True)
SuccessAscending(rows) ==
    [i \in 1..Len(rows), j \in 1..Len(rows) |->
        FracLess(rows[i].success, rows[j].success)]

\* lines 304-307.  With no pressured play groupby(...).apply has no group
\* and returns an empty DataFrame, on which sort_values(ascending=True)
\* raises TypeError (no 'by'); otherwise apply returns a Series.
DefSuccess ==
    LET g    == Groups(Pressured)
        rows == [k \in 1..Len(g) |-> DefSuccessRow(g[k])]
    IN  IF Pressured = {}
        THEN [err |-> "TypeError", value |-> NaN]
        ELSE [err |-> "None",
              value |-> SortValues(rows, SuccessAscending(rows))]

\* lines 314-322
TimingSuccess ==
    [b \in Range(ChartLabels) |->
        LET S == {i \in Pressured : ChartTiming(data[i]) = b}
        IN  MeanExact([i \in S |-> ChartSuccess(data[i])], S)]

\* lines 251-333.  Line 294 groups self.data by 'time_bucket', a column that
\* only time_to_throw_analysis creates; without it groupby raises KeyError.
\* Lines 305-307 raise TypeError on a table without pressured play.  Line 330
\* saves into a fixed directory and raises FileNotFoundError without it.
create_visualizations ==
    IF "time_bucket" \notin Columns
    THEN Return("create_visualizations", "KeyError", NaN, data)
    ELSE IF DefSuccess.err # "None"
    THEN Return("create_visualizations", DefSuccess.err, NaN, data)
    ELSE IF ~output_dir
    THEN Return("create_visualizations", "FileNotFoundError", NaN, data)
    ELSE Return("create_visualizations", "None",
                [pressure_comp  |-> ByPressure("completion"),
                 pressure_yards |-> ByPressure("yards_gained"),
                 time_comp      |-> TimeComp,
                 def_success    |-> DefSuccess.value,
                 timing_success |-> TimingSuccess],
                data)

\* lines 335-389: returns a constant text
generate_insights ==
    Return("generate_insights", "None", "insights", data)

-----------------------------------------------------------------------------

Next ==
    \/ create_realistic_nfl_data
    \/ pressure_impact_summary
    \/ time_to_throw_analysis
    \/ defensive_alignment_effectiveness
    \/ optimal_pressure_timing
    \/ create_visualizations
    \/ generate_insights

\* the object: construction, then the report methods in any order
Spec == Init /\ [][Next]_vars

\* construction alone: the table create_realistic_nfl_data returns
SpecGen == Init /\ [][create_realistic_nfl_data]_vars

-----------------------------------------------------------------------------
(* Properties *)

BothPressureGroups == {data[i].pressure_applied : i \in Idx} = {0, 1}

\* C1: no report method changes self.data (rows, values or columns).
C1_ReportsLeaveDataUnchanged == [][pc = "ready" => data' = data]_vars

\* C2: on a table with pressured and unpressured plays, and with the output
\* directory in place, every report method completes without an exception
\* whatever was called before it.
C2_ReportsNeverRaise ==
    (BothPressureGroups /\ output_dir) => err = "None"

\* C3 as claimed: on the stored (rounded) values, every sack has pressure
\* applied, time_to_pressure < 2.0 and time_to_throw > time_to_pressure.
C3_SackTimingStrict ==
    \A i \in Idx : data[i].sack = 1 =>
        /\ data[i].pressure_applied = 1
        /\ data[i].time_to_pressure < 200
        /\ data[i].time_to_throw > data[i].time_to_pressure

\* C3 amended: on the stored (rounded) values, every sack has pressure
\* applied, time_to_pressure <= 2.00 and time_to_throw >= time_to_pressure.
C3_SackTimingStored ==
    \A i \in Idx : data[i].sack = 1 =>
        /\ data[i].pressure_applied = 1
        /\ data[i].time_to_pressure <= 200
        /\ data[i].time_to_throw >= data[i].time_to_pressure

\* a table with a sack whose stored time_to_pressure is 2.00 and a sack whose
\* two stored times are equal
C3_Witness ==
    /\ \E i \in Idx : data[i].sack = 1 /\ data[i].time_to_pressure = 200
    /\ \E i \in Idx : data[i].sack = 1
                      /\ data[i].time_to_throw = data[i].time_to_pressure

\* C4 as claimed: for every time_to_throw the probability used with pressure
\* is 15 to 20 points below the one used without pressure.
C4_PressureDrop15to20 ==
    \A i \in DOMAIN gen :
        gen[i].p_no_pressure - gen[i].p_pressure \in 15..20

\* C4 amended: for every time_to_throw the probability used with pressure is
\* 15 to 25 points below the one used without pressure.
C4_PressureDrop15to25 ==
    \A i \in DOMAIN gen :
        gen[i].p_no_pressure - gen[i].p_pressure \in 15..25

\* a table with a play whose two probabilities are 25 points apart and a play
\* whose two probabilities are 15 points apart
C4_Witness ==
    /\ \E i \in DOMAIN gen : gen[i].p_no_pressure - gen[i].p_pressure = 25
    /\ \E i \in DOMAIN gen : gen[i].p_no_pressure - gen[i].p_pressure = 15

\* C5: every sack has completion 0 and yards_gained in -8.0 .. -3.0, and every
\* incomplete pass that is no sack has yards_gained 0.
C5_YardsByOutcome ==
    \A i \in Idx :
        /\ data[i].sack = 1 =>
              data[i].completion = 0 /\ data[i].yards_gained \in (-80)..(-30)
        /\ (data[i].completion = 0 /\ data[i].sack = 0) =>
              data[i].yards_gained = 0

\* a table with a sack for a loss of 8.0 and an incomplete pass without sack
C5_Witness ==
    /\ \E i \in Idx : data[i].sack = 1 /\ data[i].yards_gained = -80
    /\ \E i \in Idx : data[i].sack = 0 /\ data[i].completion = 0

\* C6: the sack of each sack-eligible play and the interception of each play
\* is drawn separately: a table can hold two sack-eligible plays with
\* different sack values, and two plays of the same interception branch with
\* different interception values.
C6_DrawnPerPlay ==
    pc = "new" =>
      /\ ENABLED (/\ create_realistic_nfl_data
                  /\ \E i, j \in DOMAIN data' :
                        /\ SackCondition(data'[i].pressure_applied,
                              gen'[i].time_to_throw, gen'[i].time_to_pressure)
                        /\ SackCondition(data'[j].pressure_applied,
                              gen'[j].time_to_throw, gen'[j].time_to_pressure)
                        /\ data'[i].sack = 1
                        /\ data'[j].sack = 0)
      /\ ENABLED (/\ create_realistic_nfl_data
                  /\ \E i, j \in DOMAIN data' :
                        /\ InterceptionCondition(data'[i].pressure_applied,
                              data'[i].completion, data'[i].sack)
                           <=> InterceptionCondition(data'[j].pressure_applied,
                              data'[j].completion, data'[j].sack)
                        /\ data'[i].interception # data'[j].interception)

\* C7: time_to_throw_analysis puts every play in one of its groups, and
\* optimal_pressure_timing puts every pressured play in one of its buckets.
C7_BucketsPartition ==
    /\ lastOp = "time_to_throw_analysis" =>
          SumOver([k \in DOMAIN result |-> result[k].play_id], DOMAIN result)
            = Len(data)
    /\ lastOp = "optimal_pressure_timing" =>
          SumOver([b \in DOMAIN result |-> result[b].TotalPressures],
                  DOMAIN result)
            = Cardinality(Pressured)

\* C8: a play is in 'Quick (<2.0s)' iff the generator saw time_to_throw < 2.0,
\* and in 'Extended (2.5-3.0s)' or 'Very Long (>3.0s)' iff the generator saw
\* time_to_throw > 2.5.
C8_BucketsMatchGenerator ==
    "time_bucket" \in Columns =>
        \A i \in Idx :
            /\ data[i].time_bucket = TimeLabels[1]
                  <=> gen[i].time_to_throw < Sec(200)
            /\ data[i].time_bucket \in {TimeLabels[3], TimeLabels[4]}
                  <=> gen[i].time_to_throw > Sec(250)

\* C9: in every pressure-timing bucket the pressured plays the table counts
\* as successful are those the chart counts as successful.
C9_SuccessDefinitionsAgree ==
    \A k \in 1..Len(PressureLabels) :
        {i \in Pressured : PressureTiming(data[i]) = PressureLabels[k]
                           /\ successful_pressure(data[i]) = 1}
      = {i \in Pressured : ChartTiming(data[i]) = ChartLabels[k]
                           /\ ChartSuccess(data[i]) = 1}

\* C10: no play has more than one of completion, sack and interception set.
C10_OutcomesExclusive ==
    \A i \in Idx :
        data[i].completion + data[i].sack + data[i].interception <= 1

=============================================================================
